---- MODULE Spec2Model ----
(***************************************************************************)
(* The user controller of the YouTube-Backend repository                   *)
(* (src/src/controllers/user.controller.js) as a state machine.            *)
(*                                                                         *)
(* Every request handler is cut at its awaits on the database: a step of   *)
(* the model is the code between two database operations together with the *)
(* one database operation it ends in, which the store applies atomically.  *)
(* Handlers of different requests interleave at these steps.               *)
(*                                                                         *)
(* The User model (models/user.model.js), the auth middleware and the      *)
(* jsonwebtoken / bcrypt / mongoose libraries are not part of the source   *)
(* tree; what the controller needs of them is modelled from the            *)
(* specification and marked so in the comments.                            *)
(***************************************************************************)
EXTENDS Integers, Sequences, FiniteSets, Bags, TLC

----------------------------------------------------------------------------
(* Bounds *)

MaxUsers == 2      \* documents the user collection may hold
MaxReq   == 2      \* requests in flight at once
MaxTime  == 2      \* the clock runs 0..MaxTime
MaxCalls == 3      \* requests the server accepts in one run

(* Token lifetimes in clock ticks: access short, refresh long. *)
AccessExpiry  == 1
RefreshExpiry == 2

----------------------------------------------------------------------------
(* Values of the request fields *)

Undefined == "undefined"          \* a field the request does not carry
Blank     == " "                  \* a field that is empty after trim()

Names      == {"ada", "Ada", "bob"}
Emails     == {"ada@x.com", "bob@x.com"}
Passwords  == {"p1", "p2"}
Fullnames  == {"Ada L"}
(* what the request uploads; a request with an avatar and no cover image  *)
(* ("avatarOnly") is handled by the model and left out of the runs         *)
FileKinds  == {"none", "coverOnly", "both"}

(* String.prototype.trim on the values above *)
Trim(s) == IF s \in {"", " "} THEN "" ELSE s

(* String.prototype.toLowerCase on the values above *)
ToLowerCase(s) == CASE s = "Ada" -> "ada"
                    [] s = "Bob" -> "bob"
                    [] OTHER -> s

(* JavaScript truthiness of a string-or-undefined value *)
Truthy(s) == s # Undefined /\ s # ""

----------------------------------------------------------------------------
(* Tokens.  A signed JWT is determined by its secret, its payload and the  *)
(* second it was issued in: two tokens issued for the same user within     *)
(* one clock tick are the same string.                                     *)

NoToken     == [typ |-> "none",    sub |-> 0, iat |-> 0]
ForgedToken == [typ |-> "forged",  sub |-> 1, iat |-> 0]

generateRefreshToken(uid, t) == [typ |-> "refresh", sub |-> uid, iat |-> t]
generateAccessToken(uid, t)  == [typ |-> "access",  sub |-> uid, iat |-> t]

(* jwt.verify(token, REFRESH_TOKEN_SECRET): the signature is checked       *)
(* first, then the expiry.  The result is "ok" or the error's message.     *)
Verify(tok, t) ==
    IF tok.typ # "refresh" THEN "invalid signature"
    ELSE IF t >= tok.iat + RefreshExpiry THEN "jwt expired"
    ELSE "ok"

----------------------------------------------------------------------------
(* Passwords.  The pre-save hook of the User model stores bcrypt's hash.   *)

Hash(p) == CASE p = "p1" -> "$2b$10$hash-of-p1"
             [] p = "p2" -> "$2b$10$hash-of-p2"
             [] OTHER    -> "$2b$10$hash-of-other"

(* user.isPasswordCorrect(password): bcrypt.compare(password, stored) *)
isPasswordCorrect(stored, p) == stored = Hash(p)

----------------------------------------------------------------------------
VARIABLES
    users,      \* the user collection: a sequence of documents, _id = index
    now,        \* the clock, in ticks
    odm,        \* what the build's mongoose does with undefined in $set
    reqs,       \* the bag of requests in flight, each with its locals
    out,        \* the response of the request that completed last
    issued,     \* the refresh tokens handed out by token generation
    calls       \* the number of requests accepted so far

vars == <<users, now, odm, reqs, out, issued, calls>>

InFlight == BagToSet(reqs)
Ids   == 1..Len(users)

UserFields == {"username", "email", "fullname", "password",
               "refreshToken", "avatar", "coverImage"}

NoUser == [f \in {} |-> ""]

(* Query.select("-a -b") followed by JSON serialisation: the excluded      *)
(* fields and the fields the document does not have are left out.          *)
Select(doc, excluded) ==
    [f \in {g \in UserFields \ excluded :
                ~(g = "refreshToken" /\ doc[g] = NoToken)} |-> doc[f]]

(* a request and the locals of its handler, before any is set; incoming   *)
(* is the refresh token the request presented (incomingRefreshToken)       *)
Request == [op |-> "", pc |-> "", uid |-> 0,
         username |-> "", email |-> "", fullname |-> "", password |-> "",
         oldPassword |-> "", files |-> "", rt |-> NoToken,
         incoming |-> NoToken]

(* a response, with what identifies the request it answers: the handler,   *)
(* the user and, for a refresh that succeeded, the token presented         *)
NoOut == [op |-> "none", uid |-> 0, status |-> 0, err |-> "none", msg |-> "",
          user |-> NoUser, accessToken |-> NoToken, refreshToken |-> NoToken,
          incoming |-> NoToken]

(* new ApiError(status, msg) thrown out of a handler *)
ApiError(op, uid, status, msg) ==
    [NoOut EXCEPT !.op = op, !.uid = uid, !.status = status,
                  !.err = "ApiError", !.msg = msg]

(* any other exception thrown out of a handler: the framework answers 500 *)
Thrown(op, uid, kind, msg) ==
    [NoOut EXCEPT !.op = op, !.uid = uid, !.status = 500,
                  !.err = kind, !.msg = msg]

(* A request arrives. *)
Accept ==
    /\ calls < MaxCalls
    /\ calls' = calls + 1

(* The server takes up a request while fewer than MaxReq are in flight. *)
Free == BagCardinality(reqs) < MaxReq

(* A handler is suspended at an await as q; resumed as q, it goes on to    *)
(* its next await as q2; resumed as q, it returns.                         *)
Suspend(q)    == reqs' = reqs (+) SetToBag({q})
Resume(q, q2) == reqs' = (reqs (-) SetToBag({q})) (+) SetToBag({q2})
Return(q)     == reqs' = reqs (-) SetToBag({q})

----------------------------------------------------------------------------
(* The store *)

(* User.findOne({ $or: [{ username }, { email }] }): the _id of the first  *)
(* document one of whose two fields equals the value given, 0 for null.    *)
(* The values are compared as given.                                       *)
FindOne(username, email) ==
    LET hits == {i \in Ids : users[i].username = username
                              \/ users[i].email = email}
    IN IF hits = {} THEN 0
       ELSE CHOOSE i \in hits : \A j \in hits : i <= j

(* A unique index on username only. *)
DuplicateKey_UsernameOnly(self, username, email) ==
    \E i \in Ids : i # self /\ users[i].username = username

(* The unique indexes of the User schema on username and on email: a       *)
(* write is refused when it would give document `self` (0 for a new        *)
(* document) a username or an email another document has.                  *)
DuplicateKey(self, username, email) ==
    \E i \in Ids : i # self /\ (users[i].username = username
                                \/ users[i].email = email)

(* The required fields of the User schema, which User.create validates    *)
(* on the document it was given, before the pre-save hook runs.            *)
MissingRequired(in) ==
    \E f \in {"username", "email", "fullname", "password"} :
        in[f] = Undefined

(* The auth middleware puts req.user on a request that carries an access   *)
(* token of the user which has not expired.                                *)
Authenticated(u) ==
    /\ u \in Ids
    /\ \E t \in issued : t.sub = u /\ now < t.iat + AccessExpiry

(* uploadOnCloudinary(localPath): the url of the uploaded file *)
AvatarUrl == "http://cdn/avatar.png"
CoverUrl  == "http://cdn/cover.png"

----------------------------------------------------------------------------
(* registerUser *)

(* The requests tried: every well-formed one whose upload succeeds, and    *)
(* every one that differs from such a one in a single field, in its files  *)
(* or in the outcome of the avatar upload (uploaded).                      *)
RegisterInputs ==
    {in \in [fullname : Fullnames \cup {Blank, Undefined},
             email    : Emails \cup {Blank},
             username : Names \cup {Blank, Undefined},
             password : {"p1", Blank, Undefined},
             files    : FileKinds,
             uploaded : BOOLEAN] :
        Cardinality({f \in {"fullname", "email", "username", "password"} :
                        in[f] \in {Blank, Undefined}}
                    \cup (IF in.files \in {"avatarOnly", "both"}
                          THEN {} ELSE {"files"})
                    \cup (IF in.uploaded THEN {} ELSE {"upload"})) <= 1}

TextFields == {"fullname", "email", "username", "password"}

(* the text fields of a request are all given and none is blank *)
WellFormed(in) ==
    \A f \in TextFields : in[f] # Undefined /\ Trim(in[f]) # ""

(* Line 93: [..].some((field) => field?.trim() === "") *)
SomeFieldBlank(in) ==
    \E f \in TextFields : in[f] # Undefined /\ Trim(in[f]) = ""

(* The document User.create persists: the username lower-cased by the      *)
(* controller, the password hashed by the model's pre-save hook.           *)
NewUser(q) ==
    [username     |-> ToLowerCase(q.username),
     email        |-> q.email,
     fullname     |-> q.fullname,
     password     |-> Hash(q.password),
     refreshToken |-> NoToken,
     avatar       |-> AvatarUrl,
     coverImage   |-> IF q.files = "both" THEN CoverUrl ELSE ""]

(* Lines 86-138, up to the write of User.create: validation, the           *)
(* existence check, the avatar check, the uploads, and the evaluation of   *)
(* the document to create, which mongoose validates before it writes.      *)
(* Nothing after the existence check reads the store, so the failures      *)
(* that follow it are decided in this step.                                *)
RegisterCheck(in) ==
    /\ Free
    /\ Accept
    /\ IF SomeFieldBlank(in)
       THEN /\ out' = ApiError("register", 0, 400, "All fields are required")
            /\ UNCHANGED reqs
       ELSE IF FindOne(in.username, in.email) # 0
       THEN /\ out' = ApiError("register", 0, 409,
                               "User with email or username already exists")
            /\ UNCHANGED reqs
       ELSE IF in.files = "coverOnly"        \* req.files.avatar is undefined
       THEN /\ out' = Thrown("register", 0, "TypeError",
                             "Cannot read properties of undefined")
            /\ UNCHANGED reqs
       ELSE IF in.files = "none" \/ ~in.uploaded
       THEN /\ out' = ApiError("register", 0, 400, "Avatar file is required")
            /\ UNCHANGED reqs
       ELSE IF in.username = Undefined       \* undefined.toLowerCase()
       THEN /\ out' = Thrown("register", 0, "TypeError",
                             "Cannot read properties of undefined")
            /\ UNCHANGED reqs
       ELSE IF MissingRequired(in)
       THEN /\ out' = Thrown("register", 0, "ValidationError",
                             "User validation failed")
            /\ UNCHANGED reqs
       ELSE /\ Suspend(
                  [Request EXCEPT !.op = "register", !.pc = "create",
                               !.username = in.username,
                               !.email = in.email,
                               !.fullname = in.fullname,
                               !.password = in.password,
                               !.files = in.files])
            /\ UNCHANGED out
    /\ UNCHANGED <<users, now, odm, issued>>

(* Lines 130-151: the write of User.create, refused by a unique index or   *)
(* applied, then the read-back and the response.                           *)
RegisterCreate(q) ==
    LET doc == NewUser(q) IN
    /\ q.op = "register" /\ q.pc = "create"
    /\ Return(q)
    /\ IF DuplicateKey(0, doc.username, doc.email)
       THEN /\ out' = Thrown("register", 0, "MongoServerError",
                             "E11000 duplicate key error")
            /\ UNCHANGED users
       ELSE /\ Len(users) < MaxUsers
            /\ users' = Append(users, doc)
            /\ out' = [NoOut EXCEPT
                          !.op = "register", !.uid = Len(users) + 1,
                          !.status = 202,
                          !.msg = "User registered successfully",
                          !.user = Select(doc, {"password", "refreshToken"})]
    /\ UNCHANGED <<now, odm, issued, calls>>

----------------------------------------------------------------------------
(* generateAccessAndRefreshTokens, loginUser, refreshAccessToken *)

LoginInputs ==
    [username : Names \cup {Undefined},
     email    : Emails \cup {Undefined},
     password : Passwords]

Proceed == 0       \* the status of a request that has not failed

(* loginUser with one answer for an unknown user and a wrong password *)
LoginVerdict_Generic(in) ==
    LET u == FindOne(in.username, in.email) IN
    IF ~(Truthy(in.username) \/ Truthy(in.email))
    THEN [status |-> 400, uid |-> 0, msg |-> "username or email is required"]
    ELSE IF u = 0 \/ ~isPasswordCorrect(users[u].password, in.password)
    THEN [status |-> 401, uid |-> u, msg |-> "Invalid user credentials"]
    ELSE [status |-> Proceed, uid |-> u, msg |-> ""]

(* Lines 154-178: validation, the lookup and the password check decide     *)
(* whether the request ends in an error or goes on to token generation.    *)
LoginVerdict(in) ==
    LET u == FindOne(in.username, in.email) IN
    IF ~(Truthy(in.username) \/ Truthy(in.email))
    THEN [status |-> 400, uid |-> 0, msg |-> "username or email is required"]
    ELSE IF u = 0
    THEN [status |-> 404, uid |-> 0, msg |-> "user doesn't exist"]
    ELSE IF ~isPasswordCorrect(users[u].password, in.password)
    THEN [status |-> 401, uid |-> u, msg |-> "Invalid user credentials"]
    ELSE [status |-> Proceed, uid |-> u, msg |-> ""]

LoginCheck(in) ==
    LET v == LoginVerdict(in) IN
    /\ Free
    /\ Accept
    /\ IF v.status # Proceed
       THEN /\ out' = ApiError("login", v.uid, v.status, v.msg)
            /\ UNCHANGED reqs
       ELSE /\ Suspend(
                  [Request EXCEPT !.op = "login", !.pc = "issue",
                               !.uid = v.uid])
            /\ UNCHANGED out
    /\ UNCHANGED <<users, now, odm, issued>>

(* The tokens a client may present: any refresh token the server has       *)
(* handed out, a token with a signature the server did not make, or none.  *)
Presentable == issued \cup {ForgedToken, NoToken}

(* Lines 30-57: the token is read, verified and compared with the one      *)
(* stored on the user it names.  Every error is rethrown at lines 80-83    *)
(* as status 401 with the message of the error caught.                     *)
RefreshVerdict(tok) ==
    IF tok = NoToken
    THEN [status |-> 401, uid |-> 0, msg |-> "Unauthorized request"]
    ELSE IF Verify(tok, now) # "ok"
    THEN [status |-> 401, uid |-> 0, msg |-> Verify(tok, now)]
    ELSE IF tok.sub \notin Ids
    THEN [status |-> 401, uid |-> 0, msg |-> "Invalid refresh token"]
    ELSE IF tok # users[tok.sub].refreshToken
    THEN [status |-> 401, uid |-> tok.sub,
          msg |-> "Refresh token is expired or used"]
    ELSE [status |-> Proceed, uid |-> tok.sub, msg |-> ""]

(* refreshAccessToken with reuse detection that revokes: presenting a      *)
(* token that is not the stored one ends the user's session.               *)
RefreshCheck_RevokeOnReuse(tok) ==
    LET v == RefreshVerdict(tok) IN
    /\ Free
    /\ Accept
    /\ IF v.status # Proceed
       THEN /\ out' = ApiError("refresh", v.uid, v.status, v.msg)
            /\ users' = IF v.uid = 0 THEN users
                        ELSE [users EXCEPT ![v.uid].refreshToken = NoToken]
            /\ UNCHANGED reqs
       ELSE /\ Suspend(
                  [Request EXCEPT !.op = "refresh", !.pc = "issue",
                               !.uid = v.uid, !.incoming = tok])
            /\ UNCHANGED <<out, users>>
    /\ UNCHANGED <<now, odm, issued>>

RefreshCheck(tok) ==
    LET v == RefreshVerdict(tok) IN
    /\ Free
    /\ Accept
    /\ IF v.status # Proceed
       THEN /\ out' = ApiError("refresh", v.uid, v.status, v.msg)
            /\ UNCHANGED reqs
       ELSE /\ Suspend(
                  [Request EXCEPT !.op = "refresh", !.pc = "issue",
                               !.uid = v.uid, !.incoming = tok])
            /\ UNCHANGED out
    /\ UNCHANGED <<users, now, odm, issued>>

(* What the caller of generateAccessAndRefreshTokens does with the         *)
(* ApiError(500) of lines 25-27: loginUser lets it through,                *)
(* refreshAccessToken catches it and rethrows it as status 401.            *)
GenerationError(op, u) ==
    ApiError(op, u, IF op = "refresh" THEN 401 ELSE 500,
             "Error generating refresh & access tokens")

(* Lines 11-19: the user is read and both tokens are signed. *)
IssueTokens(q) ==
    /\ q.op \in {"login", "refresh"} /\ q.pc = "issue"
    /\ Resume(q, [q EXCEPT !.pc = "persist",
                            !.rt = generateRefreshToken(q.uid, now)])
    /\ UNCHANGED <<users, now, odm, out, issued, calls>>

(* Lines 9-27: the read, a signature or the write throws. *)
GenerationFails(q) ==
    /\ q.op \in {"login", "refresh"} /\ q.pc \in {"issue", "persist"}
    /\ Return(q)
    /\ out' = GenerationError(q.op, q.uid)
    /\ UNCHANGED <<users, now, odm, issued, calls>>

(* The write of line 22 left out: the document keeps its old token. *)
SetRefreshToken_NotStored(doc, rt) == doc

(* Line 22: findByIdAndUpdate(userId, { $set: { refreshToken } }) *)
SetRefreshToken(doc, rt) == [doc EXCEPT !.refreshToken = rt]

(* Line 24: the object generateAccessAndRefreshTokens returns *)
Tokens(uid, rt) ==
    [accessToken  |-> generateAccessToken(uid, rt.iat),
     refreshToken |-> rt]

(* const { name } = obj: the property, undefined when obj has none *)
Property(obj, name) == IF name \in DOMAIN obj THEN obj[name] ELSE NoToken

(* Lines 181-205: what loginUser answers *)
LoginResponse(q, doc) ==
    [NoOut EXCEPT
        !.op = "login", !.uid = q.uid, !.status = 200,
        !.msg = "User logged In successfully",
        !.user = Select(doc, {"password", "refreshToken"}),
        !.accessToken = Property(Tokens(q.uid, q.rt), "accessToken"),
        !.refreshToken = Property(Tokens(q.uid, q.rt), "refreshToken")]

(* Lines 60-79: what refreshAccessToken answers *)
RefreshResponse(q) ==
    [NoOut EXCEPT
        !.op = "refresh", !.uid = q.uid, !.status = 200,
        !.msg = "Access token refreshed",
        !.incoming = q.incoming,
        !.accessToken = Property(Tokens(q.uid, q.rt), "accessToken"),
        !.refreshToken = Property(Tokens(q.uid, q.rt), "newRefreshToken")]

(* Line 22 with an update that is not restricted to the user's _id. *)
PersistTokens_EveryUser(q) ==
    /\ q.op \in {"login", "refresh"} /\ q.pc = "persist"
    /\ users' = [i \in Ids |-> SetRefreshToken(users[i], q.rt)]
    /\ issued' = issued \cup {q.rt}
    /\ Return(q)
    /\ out' = IF q.op = "login" THEN LoginResponse(q, users'[q.uid])
                                ELSE RefreshResponse(q)
    /\ UNCHANGED <<now, odm, calls>>

(* Line 22 as an atomic conditional update: a refresh writes its token     *)
(* only while the token it presented is still the stored one, and is       *)
(* answered 401 otherwise.                                                 *)
PersistTokens_IfCurrent(q) ==
    /\ q.op \in {"login", "refresh"} /\ q.pc = "persist"
    /\ Return(q)
    /\ IF q.op = "refresh" /\ users[q.uid].refreshToken # q.incoming
       THEN /\ out' = ApiError("refresh", q.uid, 401,
                               "Refresh token is expired or used")
            /\ UNCHANGED <<users, issued>>
       ELSE /\ users' = [users EXCEPT ![q.uid] = SetRefreshToken(@, q.rt)]
            /\ issued' = issued \cup {q.rt}
            /\ out' = IF q.op = "login" THEN LoginResponse(q, users'[q.uid])
                                        ELSE RefreshResponse(q)
    /\ UNCHANGED <<now, odm, calls>>

(* Line 22 and the rest of the handler: the refresh token is written to    *)
(* the user, the tokens are returned, loginUser reads the user back, the   *)
(* response is sent.                                                       *)
PersistTokens(q) ==
    /\ q.op \in {"login", "refresh"} /\ q.pc = "persist"
    /\ users' = [users EXCEPT ![q.uid] = SetRefreshToken(@, q.rt)]
    /\ issued' = issued \cup {q.rt}
    /\ Return(q)
    /\ out' = IF q.op = "login" THEN LoginResponse(q, users'[q.uid])
                                ELSE RefreshResponse(q)
    /\ UNCHANGED <<now, odm, calls>>

----------------------------------------------------------------------------
(* logoutUser, changeCurrentUserPassword *)

(* findByIdAndUpdate(id, { $set: { refreshToken: undefined } }): mongoose  *)
(* from version 6 on removes a key whose value is undefined from an        *)
(* update ("strip"), earlier versions write null ("null").  Which of the   *)
(* two the build does shows at the first such update and stays.            *)
Builds == {"strip", "null"}

SetUndefined(doc, field, build) ==
    IF build = "strip" THEN doc ELSE [doc EXCEPT ![field] = NoToken]

(* Lines 208-227 *)
Logout(u) ==
    /\ Authenticated(u)
    /\ Accept
    /\ odm' \in IF odm = "unseen" THEN Builds ELSE {odm}
    /\ users' = [users EXCEPT
                    ![u] = SetUndefined(users[u], "refreshToken", odm')]
    /\ out' = [NoOut EXCEPT !.op = "logout", !.uid = u, !.status = 200,
                            !.msg = "User logged out"]
    /\ UNCHANGED <<now, reqs, issued>>

(* Lines 229-236: the user is read and the old password checked. *)
ChangePasswordCheck(u, oldPassword, newPassword) ==
    /\ Free
    /\ Authenticated(u)
    /\ Accept
    /\ IF ~isPasswordCorrect(users[u].password, oldPassword)
       THEN /\ out' = ApiError("changePassword", u, 400,
                               "Invalid old password")
            /\ UNCHANGED reqs
       ELSE /\ Suspend(
                  [Request EXCEPT !.op = "changePassword", !.pc = "update",
                               !.uid = u, !.oldPassword = oldPassword,
                               !.password = newPassword])
            /\ UNCHANGED out
    /\ UNCHANGED <<users, now, odm, issued>>

(* A password change that also ends the user's session. *)
updateOnePassword_Revoking(doc, newPassword) ==
    [doc EXCEPT !.password = newPassword, !.refreshToken = NoToken]

(* user.updateOne({ password }): an update sent to the store; the value    *)
(* is written as given, the pre-save hook that hashes does not run.        *)
updateOnePassword(doc, newPassword) == [doc EXCEPT !.password = newPassword]

(* Lines 238-244 *)
ChangePasswordUpdate(q) ==
    /\ q.op = "changePassword" /\ q.pc = "update"
    /\ users' = [users EXCEPT ![q.uid] = updateOnePassword(@, q.password)]
    /\ Return(q)
    /\ out' = [NoOut EXCEPT !.op = "changePassword", !.uid = q.uid,
                            !.status = 200,
                            !.msg = "Password changed successfully"]
    /\ UNCHANGED <<now, odm, issued, calls>>

----------------------------------------------------------------------------
(* updateAccountDetails, updateUserAvatar, updateUserCoverImage *)

(* Lines 252-270 *)
UpdateAccountDetails(u, fullname, email) ==
    /\ Authenticated(u)
    /\ Accept
    /\ IF ~Truthy(fullname) \/ ~Truthy(email)
       THEN /\ out' = ApiError("updateAccount", u, 400,
                               "All fields are required")
            /\ UNCHANGED users
       ELSE IF DuplicateKey(u, users[u].username, email)
       THEN /\ out' = Thrown("updateAccount", u, "MongoServerError",
                             "E11000 duplicate key error")
            /\ UNCHANGED users
       ELSE /\ users' = [users EXCEPT ![u].fullname = fullname,
                                      ![u].email = email]
            /\ out' = [NoOut EXCEPT
                          !.op = "updateAccount", !.uid = u, !.status = 200,
                          !.msg = "Account details updated successfully",
                          !.user = Select(users'[u], {"password"})]
    /\ UNCHANGED <<now, odm, reqs, issued>>

(* Lines 272-326: updateUserAvatar (field "avatar") and                    *)
(* updateUserCoverImage (field "coverImage").  The upload answers with an  *)
(* object that has a url, or with null, whose url cannot be read.          *)
UpdateImage(u, field, file, uploaded) ==
    LET op   == IF field = "avatar" THEN "updateAvatar" ELSE "updateCover"
        url  == IF field = "avatar" THEN AvatarUrl ELSE CoverUrl IN
    /\ Authenticated(u)
    /\ Accept
    /\ IF ~file
       THEN /\ out' = ApiError(op, u, 400, IF field = "avatar"
                                             THEN "Avatar file is missing"
                                             ELSE "Cover file is missing")
            /\ UNCHANGED users
       ELSE IF ~uploaded
       THEN /\ out' = Thrown(op, u, "TypeError",
                             "Cannot read properties of null")
            /\ UNCHANGED users
       ELSE /\ users' = [users EXCEPT ![u][field] = url]
            /\ out' = [NoOut EXCEPT
                          !.op = op, !.uid = u, !.status = 200,
                          !.msg = IF field = "avatar"
                                  THEN "Avatar Image updated successfully"
                                  ELSE "Cover Image updated successfully",
                          !.user = Select(users'[u], {"password"})]
    /\ UNCHANGED <<now, odm, reqs, issued>>

----------------------------------------------------------------------------
(* The server starts on a database that is empty or holds one user whom   *)
(* an earlier run registered, and with no request in flight.               *)
Registered ==
    NewUser([username |-> "ada", email |-> "ada@x.com",
             fullname |-> "Ada L", password |-> "p1", files |-> "both"])

Init ==
    /\ users \in {<<>>, <<Registered>>}
    /\ now = 0
    /\ odm = "unseen"
    /\ reqs = EmptyBag
    /\ out = NoOut
    /\ issued = {}
    /\ calls = 0

(* The clock advances. *)
Tick ==
    /\ now < MaxTime
    /\ now' = now + 1
    /\ UNCHANGED <<users, odm, reqs, out, issued, calls>>

Next ==
    \/ Tick
    \/ \E in \in RegisterInputs : RegisterCheck(in)
    \/ \E q \in InFlight : RegisterCreate(q)
    \/ \E in \in LoginInputs : LoginCheck(in)
    \/ \E tok \in Presentable : RefreshCheck(tok)
    \/ \E q \in InFlight : IssueTokens(q)
    \/ \E q \in InFlight : GenerationFails(q)
    \/ \E q \in InFlight : PersistTokens(q)
    \/ \E u \in Ids : Logout(u)
    \/ \E u \in Ids, oldPassword, newPassword \in Passwords :
          ChangePasswordCheck(u, oldPassword, newPassword)
    \/ \E q \in InFlight : ChangePasswordUpdate(q)
    \/ \E u \in Ids, fullname \in Fullnames \cup {Undefined},
          email \in Emails \cup {Undefined} :
          UpdateAccountDetails(u, fullname, email)
    \/ \E u \in Ids, field \in {"avatar", "coverImage"},
          file, uploaded \in BOOLEAN :
          UpdateImage(u, field, file, uploaded)

Spec == Init /\ [][Next]_vars
----------------------------------------------------------------------------
(* Properties *)

IssuedTo(u) == {t \in issued : t.sub = u}

(* The refresh token of user u that was signed last among those handed out *)
LastIssued(u) ==
    IF IssuedTo(u) = {} THEN NoToken
    ELSE CHOOSE t \in IssuedTo(u) : \A s \in IssuedTo(u) : s.iat <= t.iat

(* a login request that names user u by username *)
LoginAs(u, p) ==
    [username |-> users[u].username, email |-> Undefined, password |-> p]

(* C1: a refresh token that was handed out to a user and is no longer the  *)
(* one issued last to that user is rejected with status 401 when it is     *)
(* presented, also while it has not expired.                               *)
C1_SupersededTokenRejected ==
    \A tok \in issued :
        (tok # LastIssued(tok.sub) /\ Verify(tok, now) = "ok")
            => RefreshVerdict(tok).status = 401

(* C2: the response of a successful refreshAccessToken carries an access   *)
(* token and the refresh token now stored on the user, which the next      *)
(* refresh accepts.                                                        *)
C2_RefreshReturnsStoredToken ==
    (out.op = "refresh" /\ out.status = 200)
        => /\ out.accessToken # NoToken
           /\ out.refreshToken # NoToken
           /\ out.refreshToken = users[out.uid].refreshToken
           /\ Verify(out.refreshToken, now) = "ok"
                  => RefreshVerdict(out.refreshToken).status = Proceed

(* C3: once logoutUser has answered for a user, and until a later login    *)
(* answers, the user has no stored refresh token and every refresh token   *)
(* handed out to the user before is rejected with status 401.              *)
C3_LogoutRevokes ==
    out.op = "logout"
        => /\ users[out.uid].refreshToken = NoToken
           /\ \A tok \in IssuedTo(out.uid) : RefreshVerdict(tok).status = 401

(* C4: when changeCurrentUserPassword has replaced old by new, old # new,  *)
(* a login with new passes the password check and a login with old is      *)
(* answered 401.                                                           *)
C4_ChangePasswordRoundTrip ==
    [][\A q \in InFlight, u \in Ids, old, new \in Passwords :
          (/\ ChangePasswordUpdate(q)
           /\ q.uid = u /\ q.oldPassword = old /\ q.password = new
           /\ old # new)
              => /\ LoginVerdict(LoginAs(u, new))'.status = Proceed
                 /\ LoginVerdict(LoginAs(u, old))'.status = 401
      ]_vars

(* C5: the user record in the response of Register, Login,                 *)
(* UpdateAccountDetails, UpdateUserAvatar and UpdateUserCoverImage has     *)
(* neither the password field nor the refreshToken field.                  *)
C5_NoSecretsInResponse ==
    out.op \in {"register", "login", "updateAccount",
                "updateAvatar", "updateCover"}
        => /\ "password" \notin DOMAIN out.user
           /\ "refreshToken" \notin DOMAIN out.user

C8_StoredIsLastIssued ==
    \A u \in Ids :
        users[u].refreshToken # NoToken
            => users[u].refreshToken = LastIssued(u)

(* C9: the stored password of a user is the hash of a password and is not  *)
(* a password as submitted.                                                *)
C9_PasswordHashed ==
    \A u \in Ids :
        /\ users[u].password \notin Passwords
        /\ \E p \in Passwords : users[u].password = Hash(p)

(* C10: a well-formed Register request whose lower-cased username or whose *)
(* email is that of a stored user is answered 409 and leaves the users     *)
(* unchanged.                                                              *)
C10_RegisterConflict ==
    [][\A in \in RegisterInputs :
          (/\ RegisterCheck(in)
           /\ WellFormed(in)
           /\ \E i \in Ids : \/ users[i].username = ToLowerCase(in.username)
                             \/ users[i].email = in.email)
              => /\ out'.op = "register" /\ out'.status = 409
                 /\ users' = users
      ]_vars

(* C11: two refreshAccessToken calls that present the same stored token    *)
(* can both pass the comparison of line 55 before either writes, and both  *)
(* then succeed: nothing after the comparison looks at the stored token    *)
(* again, so every refresh that has passed it is answered 200 and writes   *)
(* its token when it reaches line 22, whatever is stored by then.          *)
C11_RacingRefreshesSucceed ==
    [][\A q \in InFlight :
          (PersistTokens(q) /\ q.op = "refresh")
              => /\ out'.op = "refresh" /\ out'.status = 200
                 /\ out'.incoming = q.incoming
                 /\ users'[q.uid].refreshToken = q.rt
      ]_vars

(* one refresh presenting a token has been answered 200 and has replaced   *)
(* the stored token, and a second refresh that presented the same token    *)
(* has passed the comparison too and is about to write                     *)
C11_Witness ==
    /\ out.op = "refresh" /\ out.status = 200
    /\ \E q \in InFlight :
          /\ q.op = "refresh" /\ q.pc = "persist"
          /\ q.incoming = out.incoming
          /\ q.incoming # users[q.uid].refreshToken

(* C12: of two refresh tokens that fail verification, one for its          *)
(* signature and one for its expiry, the refreshAccessToken calls          *)
(* presenting them are answered with the same message.                     *)
C12_SameVerificationMessage ==
    \A t1, t2 \in Presentable \ {NoToken} :
        (/\ Verify(t1, now) = "invalid signature"
         /\ Verify(t2, now) = "jwt expired")
            => RefreshVerdict(t1).msg = RefreshVerdict(t2).msg

(* C13: a failure of token generation is answered with status 500, in      *)
(* loginUser and in refreshAccessToken.                                    *)
C13_GenerationErrorIs500 ==
    (/\ out.op \in {"login", "refresh"}
     /\ out.msg = "Error generating refresh & access tokens")
        => out.status = 500

(* no stored user has the username, as given or lower-cased, or the email  *)
(* of the Register request                                                 *)
NoConflict(in) ==
    \A i \in Ids :
        /\ users[i].username \notin {in.username, ToLowerCase(in.username)}
        /\ users[i].email # in.email

(* C14: a Register request one of whose text fields is missing or blank,   *)
(* and which conflicts with no stored user, is answered with a validation  *)
(* error (status 400, or the validation error of the store), and no user   *)
(* is created.                                                             *)
C14_RegisterValidation ==
    [][\A in \in RegisterInputs :
          (RegisterCheck(in) /\ ~WellFormed(in) /\ NoConflict(in))
              => /\ out'.op = "register"
                 /\ out'.status = 400 \/ out'.err = "ValidationError"
                 /\ users' = users /\ reqs' = reqs
      ]_vars

(* C15: a well-formed Register request that conflicts with no stored user  *)
(* and uploads no avatar, with or without a cover image, is answered       *)
(* with status 400, and no user is created.                                *)
C15_RegisterNoAvatar ==
    [][\A in \in RegisterInputs :
          (/\ RegisterCheck(in) /\ WellFormed(in) /\ NoConflict(in)
           /\ in.files \in {"none", "coverOnly"})
              => /\ out'.op = "register" /\ out'.status = 400
                 /\ users' = users /\ reqs' = reqs
      ]_vars

(* the stored users a login request names by username or by email *)
Matching(in) ==
    {i \in Ids : users[i].username = in.username
                 \/ users[i].email = in.email}

(* C16: loginUser answers 400 when the request has neither username nor    *)
(* email, 404 when it has one and no stored user matches, 401 when users   *)
(* match and the password verifies against none of them; in these cases    *)
(* the response carries no tokens, no token is issued or stored and no     *)
(* token generation is started.  (A loginUser step takes up a request and  *)
(* answers as loginUser or suspends; the other steps are set aside first.) *)
C16_LoginFailures ==
    [][(calls' = calls + 1 /\ (out'.op = "login" \/ reqs' # reqs))
          => \A in \in LoginInputs :
               LoginCheck(in) =>
                 LET noId    == in.username = Undefined /\ in.email = Undefined
                     unknown == ~noId /\ Matching(in) = {}
                     wrong   == /\ ~noId /\ Matching(in) # {}
                                /\ \A i \in Matching(in) :
                                      users[i].password # Hash(in.password)
                 IN /\ noId    => out'.status = 400
                    /\ unknown => out'.status = 404
                    /\ wrong   => out'.status = 401
                    /\ (noId \/ unknown \/ wrong)
                          => /\ out'.op = "login" /\ out'.err = "ApiError"
                             /\ out'.accessToken = NoToken
                             /\ out'.refreshToken = NoToken
                             /\ users' = users /\ issued' = issued
                             /\ reqs' = reqs
      ]_vars

(* a login naming a stored user with a password that does not verify has   *)
(* been answered 401                                                       *)
C16_Witness ==
    /\ out.op = "login" /\ out.status = 401 /\ out.uid \in Ids
    /\ out.accessToken = NoToken /\ out.refreshToken = NoToken

(* C17: a step of changeCurrentUserPassword, the check of the old password *)
(* or the update, leaves the stored refresh token of every user as it      *)
(* was, and a refresh presenting a token is answered after the step as it  *)
(* would have been before.                                                 *)
C17_ChangePasswordKeepsToken ==
    [][((\E u \in Ids, old, new \in Passwords :
             ChangePasswordCheck(u, old, new))
        \/ (\E q \in InFlight : ChangePasswordUpdate(q)))
          => /\ \A u \in Ids :
                   users'[u].refreshToken = users[u].refreshToken
             /\ \A tok \in Presentable :
                   RefreshVerdict(tok)' = RefreshVerdict(tok)
      ]_vars

(* the password of a user has been changed and the refresh token the user  *)
(* holds is still accepted                                                 *)
C17_Witness ==
    /\ out.op = "changePassword" /\ out.status = 200
    /\ users[out.uid].refreshToken \in issued
    /\ RefreshVerdict(users[out.uid].refreshToken).status = Proceed

(* C18: a logoutUser call for a user whose logout was the last request     *)
(* answered succeeds, leaves the user record as the first call left it,    *)
(* and that record has no refresh token.                                   *)
C18_LogoutIdempotent ==
    [][\A u \in Ids :
          (/\ Logout(u)
           /\ out.op = "logout" /\ out.uid = u /\ out.status = 200)
              => /\ out'.op = "logout" /\ out'.status = 200
                 /\ users'[u] = users[u]
                 /\ users'[u].refreshToken = NoToken
      ]_vars

(* C19: the step that completes a refreshAccessToken call issues its       *)
(* tokens for the user the presented token names, changes the refresh      *)
(* token of that user and nothing else of the record, and leaves the       *)
(* records of all other users as they were.                                *)
C19_RefreshSameUser ==
    [][\A q \in InFlight :
          (PersistTokens(q) /\ q.op = "refresh")
              => LET u == q.incoming.sub IN
                 /\ out'.status = 200 /\ out'.uid = u
                 /\ out'.accessToken.typ = "access"
                 /\ out'.accessToken.sub = u
                 /\ users'[u].refreshToken.typ = "refresh"
                 /\ users'[u].refreshToken.sub = u
                 /\ issued' \ issued \subseteq {users'[u].refreshToken}
                 /\ users' = [users EXCEPT
                                 ![u].refreshToken = users'[u].refreshToken]
      ]_vars

(* a refresh has succeeded for one user while another user is stored *)
C19_Witness ==
    /\ out.op = "refresh" /\ out.status = 200
    /\ \E v \in Ids : v # out.uid

(* C20: a loginUser or refreshAccessToken call that is answered with an    *)
(* error before token generation leaves every user record as it was and    *)
(* starts no token generation; the token stored on a user gets the same    *)
(* verdict after the rejected call as before.  (Such a step takes up a     *)
(* request and answers as one of the two handlers; the other steps are     *)
(* set aside first.)                                                       *)
C20_FailedAuthChangesNothing ==
    [][(/\ calls' = calls + 1
        /\ out'.op \in {"login", "refresh"}
        /\ \/ \E in \in LoginInputs :
                LoginVerdict(in).status # Proceed /\ LoginCheck(in)
           \/ \E tok \in Presentable :
                RefreshVerdict(tok).status # Proceed /\ RefreshCheck(tok))
          => /\ out'.status \in {400, 401, 404}
             /\ users' = users
             /\ reqs' = reqs
             /\ \A u \in Ids :
                   RefreshVerdict(users[u].refreshToken)'
                       = RefreshVerdict(users[u].refreshToken)
      ]_vars

(* a refresh presenting a superseded token has been rejected and the       *)
(* token stored on the user is still accepted                              *)
C20_Witness ==
    /\ out.op = "refresh" /\ out.status = 401
    /\ out.msg = "Refresh token is expired or used"
    /\ users[out.uid].refreshToken \in issued
    /\ RefreshVerdict(users[out.uid].refreshToken).status = Proceed
====
